---- MODULE Spec2Model ----
(***************************************************************************)
(* Name-chain and `use` declaration auto-completion of move-analyzer       *)
(* (completions/name_chain.rs).  Both entry points are functions of the    *)
(* symbol index, the alias snapshot of the chain root and the cursor       *)
(* context.  The inputs are drawn in Init; the actions are the entry       *)
(* points and the frames of the recursive chain walk.                      *)
(***************************************************************************)
EXTENDS Integers, Sequences, FiniteSets, TLC

\* Largest number of fields of a struct or of an enum variant of the index.
MaxFields == 3
\* Largest number of entries following the leading name of a chain.
MaxPath == 2
\* Largest number of members in the member sub-group of a `use` declaration.
MaxMembers == 2
\* Largest number of module clauses in the group of a `use` declaration.
MaxUses == 2

VARIABLES
    symbols,                \* Symbols: file_mods and the alias snapshot of the chain root
    cursor,                 \* CursorContext: module, loc, find_access_chain(), find_use_decl()
    colon_colon_triggered,  \* completion was triggered by typing `::`
    entry,                  \* the entry point that is invoked
    pc,                     \* "start", "walk" (a frame of the walk is pending), "done", "panicked"
    prev_info,              \* ChainComponentInfo held by the pending frame of the walk
    path_index,             \* path_index of the pending frame
    depth,                  \* number of frames of completions_for_name_chain_entry entered
    kinds,                  \* the kinds held by the walk so far, oldest first
    outcome,                \* how the invocation ended
    completions,            \* the returned candidate list
    completion_finalized    \* the returned flag

vars == <<symbols, cursor, colon_colon_triggered, entry, pc, prev_info, path_index,
          depth, kinds, outcome, completions, completion_finalized>>

-----------------------------------------------------------------------------
(* Option, Loc and sequence helpers *)

None == <<>>
Some(x) == <<x>>

Loc(s, e) == [start |-> s, end |-> e]

\* Loc::contains (same file): other lies within self.
contains(self, other) == self.start <= other.start /\ other.end <= self.end

RECURSIVE Concat(_)
\* Iterator::flatten of a sequence of sequences (and so flat_map, extend).
Concat(ss) == IF ss = <<>> THEN <<>> ELSE Head(ss) \o Concat(Tail(ss))

\* Iterator::filter: the elements s[i] with keep[i], in order.
Select(s, keep) == Concat([i \in 1..Len(s) |-> IF keep[i] THEN <<s[i]>> ELSE <<>>])

\* Iterator::find, BTreeMap::get: Option of the first s[i] with hit[i].
FindFirst(s, hit) ==
    IF \E i \in 1..Len(s) : hit[i]
    THEN Some(s[CHOOSE i \in 1..Len(s) : hit[i] /\ \A j \in 1..(i - 1) : ~hit[j]])
    ELSE None

RECURSIVE Join(_, _)
\* [String]::join(separator)
Join(strs, separator) ==
    IF strs = <<>> THEN ""
    ELSE IF Len(strs) = 1 THEN strs[1]
    ELSE strs[1] \o separator \o Join(Tail(strs), separator)

Range(s) == {s[i] : i \in 1..Len(s)}

-----------------------------------------------------------------------------
(* Ord of the strings that end up in a BTreeSet: byte-wise, so digits come  *)
(* before upper case, and upper case before lower case.                     *)

SymbolOrder == <<"0x1", "0x2", "0x9", "A", "P", "Q", "m", "n", "q", "x">>

Rank(str) == CHOOSE i \in 1..Len(SymbolOrder) : SymbolOrder[i] = str

\* The iteration order of a BTreeSet holding the elements S, whose Ord is by key[x].
SortedSeq(S, key) ==
    [i \in 1..Cardinality(S) |->
        CHOOSE x \in S : Cardinality({y \in S : key[y] < key[x]}) = i - 1]

-----------------------------------------------------------------------------
(* Addresses and module identifiers *)

Numerical(name, value) == [tag |-> "Numerical", name |-> name, value |-> value]
NamedUnassigned(name) == [tag |-> "NamedUnassigned", name |-> Some(name), value |-> 0]

ModuleIdent(address, module) == [address |-> address, module |-> module]

\* NumericalAddress::to_string
AddressToString(value) == "0x" \o ToString(value)

\* Address equality is by value for numerical addresses, by name otherwise.
AddressEq(a, b) ==
    /\ a.tag = b.tag
    /\ IF a.tag = "Numerical" THEN a.value = b.value ELSE a.name = b.name

ModuleIdentEq(a, b) == AddressEq(a.address, b.address) /\ a.module = b.module

expansion_mod_ident_to_map_key(mod_ident) ==
    IF mod_ident.address.tag = "Numerical"
    THEN AddressToString(mod_ident.address.value) \o "::" \o mod_ident.module
    ELSE mod_ident.address.name[1] \o "::" \o mod_ident.module

\* Ord of ModuleIdent within a BTreeSet: by address, then by module name.
ModuleIdentKey(mod_ident) ==
    (IF mod_ident.address.tag = "Numerical"
     THEN Rank(AddressToString(mod_ident.address.value))
     ELSE Rank(mod_ident.address.name[1])) * (Len(SymbolOrder) + 1)
    + Rank(mod_ident.module)

-----------------------------------------------------------------------------
(* The symbol index.  Maps are sequences in their iteration order.           *)

AddrP == Numerical(Some("P"), 1)      \* address 0x1, named P
AddrQ == NamedUnassigned("Q")         \* named address without a value
Addr2 == Numerical(None, 2)           \* address 0x2, without a name

ModPm == ModuleIdent(AddrP, "m")
ModPn == ModuleIdent(AddrP, "n")
ModQm == ModuleIdent(AddrQ, "m")
Mod2q == ModuleIdent(Addr2, "q")

FieldName(k) == SubSeq("abcdefghij", k, k)

\* n fields named a, b, c, ...
FieldNames(n) == [k \in 1..n |-> FieldName(k)]

\* One datatype shape per field count and per form, named fields first:
\* prefix0 .. prefixN with named fields, then the positional ones.
Shapes(named_prefix, positional_prefix) ==
    [i \in 1..(2 * (MaxFields + 1)) |->
        LET positional == i > MaxFields + 1
            n == IF positional THEN i - MaxFields - 2 ELSE i - 1
        IN [name |-> (IF positional THEN positional_prefix ELSE named_prefix) \o ToString(n),
            field_names |-> FieldNames(n),
            positional |-> positional]]

FunctionDef(name, visibility, arg_names) ==
    [name |-> name, visibility |-> visibility, arg_names |-> arg_names]

\* ModuleDefs of P::m: functions of every visibility, structs and variants of
\* every shape, one enum and one constant.
DefsPm ==
    [ident |-> ModPm,
     functions |-> <<FunctionDef("f", "Public", <<"x">>),
                     FunctionDef("g", "Package", <<>>),
                     FunctionDef("h", "Internal", <<"x", "y">>)>>,
     structs |-> Shapes("S", "T"),
     enums |-> <<[name |-> "E", variants |-> Shapes("V", "W")]>>,
     constants |-> <<"K">>]

DefsPn ==
    [ident |-> ModPn,
     functions |-> <<FunctionDef("nf", "Public", <<>>),
                     FunctionDef("ng", "Package", <<>>),
                     FunctionDef("nh", "Internal", <<>>)>>,
     structs |-> <<[name |-> "N", field_names |-> FieldNames(1), positional |-> FALSE]>>,
     enums |-> <<>>,
     constants |-> <<"NK">>]

DefsQm ==
    [ident |-> ModQm,
     functions |-> <<FunctionDef("qf", "Public", <<>>)>>,
     structs |-> <<>>,
     enums |-> <<[name |-> "QE", variants |-> <<>>]>>,
     constants |-> <<>>]

Defs2q ==
    [ident |-> Mod2q,
     functions |-> <<>>,
     structs |-> <<>>,
     enums |-> <<>>,
     constants |-> <<>>]

\* symbols.file_mods.values().flatten()
FileMods == <<DefsPm, DefsPn, DefsQm, Defs2q>>

\* The alias snapshot of a chain root.  The name P is an address and a module
\* alias; the name m is a module alias and a member alias.
AliasInfo ==
    [addresses |-> <<[name |-> "A", value |-> 2], [name |-> "P", value |-> 1]>>,
     modules |-> <<[alias |-> "P", mod_ident |-> ModPn],
                   [alias |-> "m", mod_ident |-> ModPm]>>,
     members |-> <<[alias |-> "E", mod_ident |-> ModPm, member_name |-> "E"],
                   [alias |-> "K", mod_ident |-> ModPm, member_name |-> "K"],
                   [alias |-> "S2", mod_ident |-> ModPm, member_name |-> "S2"],
                   [alias |-> "f", mod_ident |-> ModPm, member_name |-> "f"],
                   [alias |-> "m", mod_ident |-> ModPn, member_name |-> "nf"],
                   [alias |-> "u", mod_ident |-> ModPm, member_name |-> "unknown"],
                   [alias |-> "v", mod_ident |-> ModuleIdent(AddrQ, "unknown"),
                    member_name |-> "v"]>>,
     type_params |-> <<"T">>]

\* AliasAutocompleteInfo::new
AliasAutocompleteInfo_new ==
    [addresses |-> <<>>, modules |-> <<>>, members |-> <<>>, type_params |-> <<>>]

\* mod_defs(symbols, mod_ident): the definitions of the module, if it is indexed.
mod_defs(syms, mod_ident) ==
    FindFirst(syms.file_mods,
              [i \in 1..Len(syms.file_mods) |->
                  expansion_mod_ident_to_map_key(syms.file_mods[i].ident)
                      = expansion_mod_ident_to_map_key(mod_ident)])

-----------------------------------------------------------------------------
(* Completion items *)

\* completion_item(label, kind)
completion_item(label, kind) ==
    [label |-> label, kind |-> kind, insert_text |-> None, insert_text_format |-> None]

\* PRIMITIVE_TYPE_COMPLETIONS
PRIMITIVE_TYPE_COMPLETIONS ==
    LET types == <<"u8", "u16", "u32", "u64", "u128", "u256", "bool", "address", "vector">>
    IN  [i \in 1..Len(types) |-> completion_item(types[i], "KEYWORD")]

\* call_completion_item: the function's name and, outside `use`, a call template.
call_completion_item(fname, arg_names, inside_use) ==
    [label |-> fname,
     kind |-> "FUNCTION",
     insert_text |->
        IF inside_use THEN None
        ELSE Some(fname \o "("
                  \o Join([i \in 1..Len(arg_names) |->
                              "${" \o ToString(i) \o ":" \o arg_names[i] \o "}"], ", ")
                  \o ")"),
     insert_text_format |-> IF inside_use THEN None ELSE Some("SNIPPET")]

\* What an unwrap of None leaves in place of a result: the invocation panics.
PanicItem == completion_item("", "PANIC")

HasPanic(items) == \E i \in 1..Len(items) : items[i] = PanicItem

-----------------------------------------------------------------------------
(* Datatypes and module members *)

\* BareNameOnly without the comparison of the two modules.
BareNameOnly_any_module(field_names, defining_mod_ident_str, current_mod_ident_str) ==
    field_names = <<>>

\* Line 302: no snippet unless there are fields and the cursor is in the defining module.
BareNameOnly(field_names, defining_mod_ident_str, current_mod_ident_str) ==
    field_names = <<>> \/ defining_mod_ident_str # current_mod_ident_str

\* FieldSeparator breaking the line only from four named fields on.
FieldSeparator_more_than_three(field_names, named_fields) ==
    IF Len(field_names) > 3 /\ named_fields THEN ",\n\t" ELSE ", "

\* Lines 307-311: fields on separate lines if there are more than two and they are named.
FieldSeparator(field_names, named_fields) ==
    IF Len(field_names) > 2 /\ named_fields THEN ",\n\t" ELSE ", "

datatype_completion(cur, defining_mod_ident, field_container, kind, field_names, named_fields) ==
    LET first == <<completion_item(field_container, kind)>>
    IN  IF cur.module = None
        THEN <<PanicItem>>      \* cursor.module.as_ref().unwrap()
        ELSE
        LET defining_mod_ident_str == expansion_mod_ident_to_map_key(defining_mod_ident)
            current_mod_ident_str == expansion_mod_ident_to_map_key(cur.module[1])
            separator == FieldSeparator(field_names, named_fields)
            fields_list ==
                Join([idx \in 1..Len(field_names) |->
                         IF named_fields
                         THEN "${" \o ToString(idx) \o ":" \o field_names[idx] \o "}"
                         ELSE "${" \o ToString(idx) \o "}"],
                     separator)
            label == IF ~named_fields THEN field_container \o "(..)"
                     ELSE field_container \o "{..}"
            insert_text ==
                IF ~named_fields THEN field_container \o "(" \o fields_list \o ")"
                ELSE IF Len(field_names) > 2
                     THEN field_container \o " {\n\t" \o fields_list \o ",\n}"
                     ELSE field_container \o " { " \o fields_list \o " }"
            field_completion ==
                [label |-> label, kind |-> kind, insert_text |-> Some(insert_text),
                 insert_text_format |-> Some("SNIPPET")]
        IN  IF BareNameOnly(field_names, defining_mod_ident_str, current_mod_ident_str)
            THEN first
            ELSE Append(first, field_completion)

struct_completion(cur, defining_mod_ident, name, member_def) ==
    datatype_completion(cur, defining_mod_ident, name, "STRUCT",
                        member_def.field_names, ~member_def.positional)

\* FunctionVisible with package visibility treated like public visibility.
FunctionVisible_package_as_public(fdef, same_module, same_package) ==
    CASE fdef.visibility = "Internal" -> same_module
      [] OTHER -> TRUE

FunctionVisible(fdef, same_module, same_package) ==
    CASE fdef.visibility = "Internal" -> same_module
      [] fdef.visibility = "Package" -> same_package
      [] OTHER -> TRUE

\* module_member_completions offering the constants to every requester.
module_member_completions_constants_to_all(syms, cur, prefix_mod_ident, chain_kind, inside_use) ==
    LET found == mod_defs(syms, prefix_mod_ident)
    IN  IF found = None THEN <<>>
        ELSE
        LET defs == found[1]
            same_module ==
                cur.module # None /\ ModuleIdentEq(cur.module[1], prefix_mod_ident)
            same_package ==
                cur.module # None
                /\ AddressEq(cur.module[1].address, prefix_mod_ident.address)
            fun_completions ==
                IF chain_kind \in {"Function", "All"}
                THEN LET visible ==
                             Select(defs.functions,
                                    [i \in 1..Len(defs.functions) |->
                                        FunctionVisible(defs.functions[i], same_module,
                                                        same_package)])
                     IN  [i \in 1..Len(visible) |->
                             call_completion_item(visible[i].name, visible[i].arg_names,
                                                  inside_use)]
                ELSE <<>>
            type_completions ==
                IF chain_kind \in {"Type", "All"}
                THEN Concat([i \in 1..Len(defs.structs) |->
                                struct_completion(cur, defs.ident, defs.structs[i].name,
                                                  defs.structs[i])])
                     \o [i \in 1..Len(defs.enums) |->
                            completion_item(defs.enums[i].name, "ENUM")]
                ELSE <<>>
            const_completions ==
                IF chain_kind = "All"
                THEN [i \in 1..Len(defs.constants) |->
                         completion_item(defs.constants[i], "CONSTANT")]
                ELSE <<>>
        IN  fun_completions \o type_completions \o const_completions

module_member_completions(syms, cur, prefix_mod_ident, chain_kind, inside_use) ==
    LET found == mod_defs(syms, prefix_mod_ident)
    IN  IF found = None THEN <<>>
        ELSE
        LET defs == found[1]
            same_module ==
                cur.module # None /\ ModuleIdentEq(cur.module[1], prefix_mod_ident)
            same_package ==
                cur.module # None
                /\ AddressEq(cur.module[1].address, prefix_mod_ident.address)
            fun_completions ==
                IF chain_kind \in {"Function", "All"}
                THEN LET visible ==
                             Select(defs.functions,
                                    [i \in 1..Len(defs.functions) |->
                                        FunctionVisible(defs.functions[i], same_module,
                                                        same_package)])
                     IN  [i \in 1..Len(visible) |->
                             call_completion_item(visible[i].name, visible[i].arg_names,
                                                  inside_use)]
                ELSE <<>>
            type_completions ==
                IF chain_kind \in {"Type", "All"}
                THEN Concat([i \in 1..Len(defs.structs) |->
                                struct_completion(cur, defs.ident, defs.structs[i].name,
                                                  defs.structs[i])])
                     \o [i \in 1..Len(defs.enums) |->
                            completion_item(defs.enums[i].name, "ENUM")]
                ELSE <<>>
            const_completions ==
                IF chain_kind = "All" /\ same_module
                THEN [i \in 1..Len(defs.constants) |->
                         completion_item(defs.constants[i], "CONSTANT")]
                ELSE <<>>
        IN  fun_completions \o type_completions \o const_completions

single_name_member_completion(syms, cur, mod_ident, member_alias, member_name, chain_kind) ==
    LET found == mod_defs(syms, mod_ident)
    IN  IF found = None THEN <<>>
        ELSE
        LET defs == found[1]
            fdef == FindFirst(defs.functions,
                              [i \in 1..Len(defs.functions) |->
                                  defs.functions[i].name = member_name])
            sdef == FindFirst(defs.structs,
                              [i \in 1..Len(defs.structs) |->
                                  defs.structs[i].name = member_name])
            edef == FindFirst(defs.enums,
                              [i \in 1..Len(defs.enums) |-> defs.enums[i].name = member_name])
            cdef == FindFirst(defs.constants,
                              [i \in 1..Len(defs.constants) |->
                                  defs.constants[i] = member_name])
        IN  IF fdef # None
            THEN IF chain_kind \notin {"Function", "All"} THEN <<>>
                 ELSE <<call_completion_item(member_alias, fdef[1].arg_names, FALSE)>>
            ELSE IF sdef # None
            THEN IF chain_kind \notin {"Type", "All"} THEN <<>>
                 ELSE struct_completion(cur, defs.ident, member_alias, sdef[1])
            ELSE IF edef # None
            THEN IF chain_kind \notin {"Type", "All"} THEN <<>>
                 ELSE <<completion_item(member_alias, "ENUM")>>
            ELSE IF cdef # None
            THEN IF chain_kind # "All" THEN <<>>
                 ELSE <<completion_item(member_alias, "CONSTANT")>>
            ELSE <<>>

all_single_name_member_completions(syms, cur, members_info, chain_kind) ==
    Concat([i \in 1..Len(members_info) |->
               single_name_member_completion(syms, cur, members_info[i].mod_ident,
                                             members_info[i].alias,
                                             members_info[i].member_name, chain_kind)])

-----------------------------------------------------------------------------
(* Packages and their modules *)

\* A LeadingNameAccess: a name, a numerical address or a global (`::name`) address.
LeadingName(form, name, addr, loc) ==
    [form |-> form, name |-> name, addr |-> addr, loc |-> loc]

is_pkg_mod_ident(mod_ident, leading_name) ==
    IF mod_ident.address.tag = "NamedUnassigned"
    THEN /\ leading_name.form \in {"Name", "GlobalAddress"}
         /\ mod_ident.address.name[1] = leading_name.name
    ELSE \/ /\ leading_name.form = "AnonymousAddress"
            /\ leading_name.addr = mod_ident.address.value
         \/ /\ leading_name.form \in {"Name", "GlobalAddress"}
            /\ Some(leading_name.name) = mod_ident.address.name

pkg_mod_identifiers(syms, info, leading_name) ==
    LET idents ==
            {m.mod_ident : m \in {x \in Range(info.modules) :
                                     is_pkg_mod_ident(x.mod_ident, leading_name)}}
            \cup {mdef.ident : mdef \in {x \in Range(syms.file_mods) :
                                            is_pkg_mod_ident(x.ident, leading_name)}}
    IN  SortedSeq(idents, [x \in idents |-> ModuleIdentKey(x)])

variant_completion(cur, defining_mod_ident, vinfo) ==
    datatype_completion(cur, defining_mod_ident, vinfo.name, "ENUM_MEMBER",
                        vinfo.field_names, ~vinfo.positional)

all_variant_completions(syms, cur, mod_ident, datatype_name) ==
    LET found == mod_defs(syms, mod_ident)
    IN  IF found = None THEN <<>>
        ELSE
        LET edef == FindFirst(found[1].enums,
                              [i \in 1..Len(found[1].enums) |->
                                  found[1].enums[i].name = datatype_name])
        IN  IF edef = None THEN <<>>
            ELSE Concat([i \in 1..Len(edef[1].variants) |->
                            variant_completion(cur, found[1].ident, edef[1].variants[i])])

is_package_address(syms, info, pkg_addr) ==
    \/ \E i \in 1..Len(info.addresses) : info.addresses[i].value = pkg_addr
    \/ \E i \in 1..Len(syms.file_mods) :
          /\ syms.file_mods[i].ident.address.tag = "Numerical"
          /\ syms.file_mods[i].ident.address.value = pkg_addr

is_package_name(syms, info, pkg_name) ==
    \/ \E i \in 1..Len(info.addresses) : info.addresses[i].name = pkg_name
    \/ \E i \in 1..Len(syms.file_mods) :
          syms.file_mods[i].ident.address.name = Some(pkg_name)

all_packages(syms, info) ==
    LET addresses ==
            {a.name : a \in Range(info.addresses)}
            \cup {AddressToString(a.value) : a \in Range(info.addresses)}
            \cup {mdef.ident.address.name[1] :
                     mdef \in {x \in Range(syms.file_mods) : x.ident.address.name # None}}
            \cup {AddressToString(mdef.ident.address.value) :
                     mdef \in {x \in Range(syms.file_mods) :
                                  x.ident.address.tag = "Numerical"}}
    IN  SortedSeq(addresses, [x \in addresses |-> Rank(x)])

-----------------------------------------------------------------------------
(* Kinds of chain components *)

Package(leading_name) == [tag |-> "Package", leading_name |-> leading_name]
Module(mod_ident) == [tag |-> "Module", mod_ident |-> mod_ident]
Member(mod_ident, member) == [tag |-> "Member", mod_ident |-> mod_ident, member |-> member]

ChainComponentInfo(loc, kind) == [loc |-> loc, kind |-> kind]

\* The candidates for a `use` of the modules of a package.
PackageModuleItems(syms, info, leading_name) ==
    LET idents == pkg_mod_identifiers(syms, info, leading_name)
    IN  [i \in 1..Len(idents) |-> completion_item(idents[i].module, "MODULE")]

\* The candidates for all known packages.
PackageItems(syms, info) ==
    LET packages == all_packages(syms, info)
    IN  [i \in 1..Len(packages) |-> completion_item(packages[i], "UNIT")]

\* name_chain_entry_completions enumerating the members of a module for every
\* purpose, whatever the chain stands for.
name_chain_entry_completions_any_purpose(syms, cur, info, prev_kind, chain_kind, inside_use) ==
    CASE prev_kind.tag = "Package" ->
            PackageModuleItems(syms, info, prev_kind.leading_name)
      [] prev_kind.tag = "Module" ->
            module_member_completions(syms, cur, prev_kind.mod_ident, "All", inside_use)
      [] prev_kind.tag = "Member" ->
            all_variant_completions(syms, cur, prev_kind.mod_ident, prev_kind.member)

name_chain_entry_completions(syms, cur, info, prev_kind, chain_kind, inside_use) ==
    CASE prev_kind.tag = "Package" ->
            PackageModuleItems(syms, info, prev_kind.leading_name)
      [] prev_kind.tag = "Module" ->
            module_member_completions(syms, cur, prev_kind.mod_ident, chain_kind,
                                      inside_use)
      [] prev_kind.tag = "Member" ->
            all_variant_completions(syms, cur, prev_kind.mod_ident, prev_kind.member)

\* next_name_chain_component_kind taking the first module of the package without
\* comparing its name to the component's.
next_name_chain_component_kind_first_module(syms, info, prev_kind, component_name) ==
    CASE prev_kind.tag = "Package" ->
            LET idents == pkg_mod_identifiers(syms, info, prev_kind.leading_name)
                found == FindFirst(idents, [i \in 1..Len(idents) |-> TRUE])
            IN  IF found = None THEN None ELSE Some(Module(found[1]))
      [] prev_kind.tag = "Module" ->
            Some(Member(prev_kind.mod_ident, component_name))
      [] prev_kind.tag = "Member" -> None

\* next_name_chain_component_kind resolving the name after a member as a module again.
next_name_chain_component_kind_member_to_module(syms, info, prev_kind, component_name) ==
    CASE prev_kind.tag = "Package" ->
            LET idents == pkg_mod_identifiers(syms, info, prev_kind.leading_name)
                found == FindFirst(idents, [i \in 1..Len(idents) |->
                                              idents[i].module = component_name])
            IN  IF found = None THEN None ELSE Some(Module(found[1]))
      [] prev_kind.tag = "Module" ->
            Some(Member(prev_kind.mod_ident, component_name))
      [] prev_kind.tag = "Member" -> Some(Module(prev_kind.mod_ident))

next_name_chain_component_kind(syms, info, prev_kind, component_name) ==
    CASE prev_kind.tag = "Package" ->
            LET idents == pkg_mod_identifiers(syms, info, prev_kind.leading_name)
                found == FindFirst(idents, [i \in 1..Len(idents) |->
                                              idents[i].module = component_name])
            IN  IF found = None THEN None ELSE Some(Module(found[1]))
      [] prev_kind.tag = "Module" ->
            Some(Member(prev_kind.mod_ident, component_name))
      [] prev_kind.tag = "Member" -> None

\* first_name_chain_component_kind looking a name up among the module aliases
\* before the packages.
first_name_chain_component_kind_module_first(syms, info, leading_name) ==
    CASE leading_name.form = "Name" ->
            LET mod_alias == FindFirst(info.modules,
                                       [i \in 1..Len(info.modules) |->
                                           info.modules[i].alias = leading_name.name])
                member_alias == FindFirst(info.members,
                                          [i \in 1..Len(info.members) |->
                                              info.members[i].alias = leading_name.name])
            IN  IF mod_alias # None
                THEN Some(Module(mod_alias[1].mod_ident))
                ELSE IF is_package_name(syms, info, leading_name.name)
                THEN Some(Package(leading_name))
                ELSE IF member_alias # None
                THEN Some(Member(member_alias[1].mod_ident, member_alias[1].member_name))
                ELSE None
      [] leading_name.form = "AnonymousAddress" ->
            IF is_package_address(syms, info, leading_name.addr)
            THEN Some(Package(leading_name))
            ELSE None
      [] leading_name.form = "GlobalAddress" ->
            IF is_package_name(syms, info, leading_name.name)
            THEN Some(Package(leading_name))
            ELSE None

\* first_name_chain_component_kind looking a global address up among the aliases
\* as it does a plain name.
first_name_chain_component_kind_global_as_name(syms, info, leading_name) ==
    CASE leading_name.form \in {"Name", "GlobalAddress"} ->
            LET mod_alias == FindFirst(info.modules,
                                       [i \in 1..Len(info.modules) |->
                                           info.modules[i].alias = leading_name.name])
                member_alias == FindFirst(info.members,
                                          [i \in 1..Len(info.members) |->
                                              info.members[i].alias = leading_name.name])
            IN  IF is_package_name(syms, info, leading_name.name)
                THEN Some(Package(leading_name))
                ELSE IF mod_alias # None
                THEN Some(Module(mod_alias[1].mod_ident))
                ELSE IF member_alias # None
                THEN Some(Member(member_alias[1].mod_ident, member_alias[1].member_name))
                ELSE None
      [] leading_name.form = "AnonymousAddress" ->
            IF is_package_address(syms, info, leading_name.addr)
            THEN Some(Package(leading_name))
            ELSE None

first_name_chain_component_kind(syms, info, leading_name) ==
    CASE leading_name.form = "Name" ->
            LET mod_alias == FindFirst(info.modules,
                                       [i \in 1..Len(info.modules) |->
                                           info.modules[i].alias = leading_name.name])
                member_alias == FindFirst(info.members,
                                          [i \in 1..Len(info.members) |->
                                              info.members[i].alias = leading_name.name])
            IN  IF is_package_name(syms, info, leading_name.name)
                THEN Some(Package(leading_name))
                ELSE IF mod_alias # None
                THEN Some(Module(mod_alias[1].mod_ident))
                ELSE IF member_alias # None
                THEN Some(Member(member_alias[1].mod_ident, member_alias[1].member_name))
                ELSE None
      [] leading_name.form = "AnonymousAddress" ->
            IF is_package_address(syms, info, leading_name.addr)
            THEN Some(Package(leading_name))
            ELSE None
      [] leading_name.form = "GlobalAddress" ->
            IF is_package_name(syms, info, leading_name.name)
            THEN Some(Package(leading_name))
            ELSE None

-----------------------------------------------------------------------------
(* name_chain_completions and the chain walk *)

\* symbols.compiler_info.path_autocomplete_info.get(&leading_name.loc)
\*     .cloned().unwrap_or_else(AliasAutocompleteInfo::new)
ChainAliasInfo(syms) ==
    IF syms.path_autocomplete_info = None THEN AliasAutocompleteInfo_new
    ELSE syms.path_autocomplete_info[1]

\* LeadingCompletions without the visible type parameters.
LeadingCompletions_no_type_params(syms, cur, info, leading_name, chain_kind) ==
    PackageItems(syms, info)
    \o (IF leading_name.form = "Name"
        THEN [i \in 1..Len(info.modules) |->
                 completion_item(info.modules[i].alias, "MODULE")]
             \o all_single_name_member_completions(syms, cur, info.members, chain_kind)
             \o (IF chain_kind = "Type" THEN PRIMITIVE_TYPE_COMPLETIONS ELSE <<>>)
        ELSE <<>>)

\* The candidates offered when the cursor is on the leading name.
LeadingCompletions(syms, cur, info, leading_name, chain_kind) ==
    PackageItems(syms, info)
    \o (IF leading_name.form = "Name"
        THEN [i \in 1..Len(info.modules) |->
                 completion_item(info.modules[i].alias, "MODULE")]
             \o all_single_name_member_completions(syms, cur, info.members, chain_kind)
             \o (IF chain_kind = "Type"
                 THEN PRIMITIVE_TYPE_COMPLETIONS
                      \o [i \in 1..Len(info.type_params) |->
                             completion_item(info.type_params[i], "TYPE_PARAMETER")]
                 ELSE <<>>)
        ELSE <<>>)

\* The invocation ends: it returns items, or panics if an unwrap failed on the way.
Return(items, how) ==
    /\ pc' = IF HasPanic(items) THEN "panicked" ELSE "done"
    /\ completions' = IF HasPanic(items) THEN <<>> ELSE items
    /\ outcome' = how

name_chain_completions ==
    /\ entry = "chain"
    /\ pc = "start"
    /\ IF cursor.chain = None
       THEN /\ Return(<<>>, "no_chain")
            /\ UNCHANGED <<completion_finalized, prev_info, path_index, kinds>>
       ELSE LET chain_info == cursor.chain[1]
                leading_name == chain_info.leading_name
                info == ChainAliasInfo(symbols)
                first_kind == first_name_chain_component_kind(symbols, info, leading_name)
            IN  /\ completion_finalized' = TRUE
                /\ IF contains(leading_name.loc, cursor.loc)
                   THEN /\ Return(LeadingCompletions(symbols, cursor, info, leading_name,
                                                     chain_info.kind),
                                  "leading")
                        /\ UNCHANGED <<prev_info, path_index, kinds>>
                   ELSE IF first_kind # None
                   THEN /\ pc' = "walk"
                        /\ prev_info' =
                               Some(ChainComponentInfo(leading_name.loc, first_kind[1]))
                        /\ path_index' = 0
                        /\ kinds' = <<first_kind[1]>>
                        /\ UNCHANGED <<completions, outcome>>
                   ELSE /\ Return(<<>>, "unresolved")
                        /\ UNCHANGED <<prev_info, path_index, kinds>>
    /\ UNCHANGED <<symbols, cursor, colon_colon_triggered, entry, depth>>

\* completions_for_name_chain_entry recursing on the same path index.
completions_for_name_chain_entry_no_advance ==
    /\ pc = "walk"
    /\ LET chain_info == cursor.chain[1]
           path_entries == chain_info.path_entries
           info == ChainAliasInfo(symbols)
           prev_loc == prev_info[1].loc
           prev_kind == prev_info[1].kind
           at_end == path_index = Len(path_entries)
           after_prev == colon_colon_triggered /\ cursor.loc.start > prev_loc.end
           at_colon_colon ==
               \/ at_end /\ after_prev
               \/ /\ after_prev
                  /\ path_index < Len(path_entries)
                  /\ cursor.loc.end <= path_entries[path_index + 1].loc.start
       IN  /\ depth' = depth + 1
           /\ IF at_end /\ ~after_prev
              THEN /\ Return(<<>>, "exhausted")
                   /\ UNCHANGED <<prev_info, path_index, kinds>>
              ELSE IF at_colon_colon
                      \/ contains(path_entries[path_index + 1].loc, cursor.loc)
              THEN /\ Return(name_chain_entry_completions(symbols, cursor, info, prev_kind,
                                                          chain_info.kind,
                                                          chain_info.inside_use),
                             IF at_colon_colon THEN "at_colon_colon" ELSE "on_entry")
                   /\ UNCHANGED <<prev_info, path_index, kinds>>
              ELSE LET component_name == path_entries[path_index + 1]
                       next_kind == next_name_chain_component_kind(symbols, info, prev_kind,
                                                                   component_name.value)
                   IN  IF next_kind # None
                       THEN /\ prev_info' =
                                   Some(ChainComponentInfo(component_name.loc, next_kind[1]))
                            /\ path_index' = path_index
                            /\ kinds' = Append(kinds, next_kind[1])
                            /\ UNCHANGED <<pc, completions, outcome>>
                       ELSE /\ Return(<<>>, "no_next_kind")
                            /\ UNCHANGED <<prev_info, path_index, kinds>>
    /\ UNCHANGED <<symbols, cursor, colon_colon_triggered, entry, completion_finalized>>

\* completions_for_name_chain_entry taking the cursor to be at a `::` without
\* looking at the separator trigger.
completions_for_name_chain_entry_ungated ==
    /\ pc = "walk"
    /\ LET chain_info == cursor.chain[1]
           path_entries == chain_info.path_entries
           info == ChainAliasInfo(symbols)
           prev_loc == prev_info[1].loc
           prev_kind == prev_info[1].kind
           at_end == path_index = Len(path_entries)
           after_prev == cursor.loc.start > prev_loc.end
           at_colon_colon ==
               \/ at_end /\ after_prev
               \/ /\ after_prev
                  /\ path_index < Len(path_entries)
                  /\ cursor.loc.end <= path_entries[path_index + 1].loc.start
       IN  /\ depth' = depth + 1
           /\ IF at_end /\ ~after_prev
              THEN /\ Return(<<>>, "exhausted")
                   /\ UNCHANGED <<prev_info, path_index, kinds>>
              ELSE IF at_colon_colon
                      \/ contains(path_entries[path_index + 1].loc, cursor.loc)
              THEN /\ Return(name_chain_entry_completions(symbols, cursor, info, prev_kind,
                                                          chain_info.kind,
                                                          chain_info.inside_use),
                             IF at_colon_colon THEN "at_colon_colon" ELSE "on_entry")
                   /\ UNCHANGED <<prev_info, path_index, kinds>>
              ELSE LET component_name == path_entries[path_index + 1]
                       next_kind == next_name_chain_component_kind(symbols, info, prev_kind,
                                                                   component_name.value)
                   IN  IF next_kind # None
                       THEN /\ prev_info' =
                                   Some(ChainComponentInfo(component_name.loc, next_kind[1]))
                            /\ path_index' = path_index + 1
                            /\ kinds' = Append(kinds, next_kind[1])
                            /\ UNCHANGED <<pc, completions, outcome>>
                       ELSE /\ Return(<<>>, "no_next_kind")
                            /\ UNCHANGED <<prev_info, path_index, kinds>>
    /\ UNCHANGED <<symbols, cursor, colon_colon_triggered, entry, completion_finalized>>

\* One frame of the recursive walk; a recursive call leaves the next frame pending.
completions_for_name_chain_entry ==
    /\ pc = "walk"
    /\ LET chain_info == cursor.chain[1]
           path_entries == chain_info.path_entries
           info == ChainAliasInfo(symbols)
           prev_loc == prev_info[1].loc
           prev_kind == prev_info[1].kind
           at_end == path_index = Len(path_entries)
           after_prev == colon_colon_triggered /\ cursor.loc.start > prev_loc.end
           at_colon_colon ==
               \/ at_end /\ after_prev
               \/ /\ after_prev
                  /\ path_index < Len(path_entries)
                  /\ cursor.loc.end <= path_entries[path_index + 1].loc.start
       IN  /\ depth' = depth + 1
           /\ IF at_end /\ ~after_prev
              THEN /\ Return(<<>>, "exhausted")
                   /\ UNCHANGED <<prev_info, path_index, kinds>>
              ELSE IF at_colon_colon
                      \/ contains(path_entries[path_index + 1].loc, cursor.loc)
              THEN /\ Return(name_chain_entry_completions(symbols, cursor, info, prev_kind,
                                                          chain_info.kind,
                                                          chain_info.inside_use),
                             IF at_colon_colon THEN "at_colon_colon" ELSE "on_entry")
                   /\ UNCHANGED <<prev_info, path_index, kinds>>
              ELSE LET component_name == path_entries[path_index + 1]
                       next_kind == next_name_chain_component_kind(symbols, info, prev_kind,
                                                                   component_name.value)
                   IN  IF next_kind # None
                       THEN /\ prev_info' =
                                   Some(ChainComponentInfo(component_name.loc, next_kind[1]))
                            /\ path_index' = path_index + 1
                            /\ kinds' = Append(kinds, next_kind[1])
                            /\ UNCHANGED <<pc, completions, outcome>>
                       ELSE /\ Return(<<>>, "no_next_kind")
                            /\ UNCHANGED <<prev_info, path_index, kinds>>
    /\ UNCHANGED <<symbols, cursor, colon_colon_triggered, entry, completion_finalized>>

-----------------------------------------------------------------------------
(* use_decl_completions *)

module_use_completions(syms, cur, info, mod_use, package, mod_name) ==
    LET idents == pkg_mod_identifiers(syms, info, package)
        found == FindFirst(idents, [i \in 1..Len(idents) |->
                                      idents[i].module = mod_name.value])
        members == module_member_completions(syms, cur, found[1], "All", TRUE)
    IN  IF found = None THEN <<>>
        ELSE CASE mod_use.tag = "Module" -> <<>>
               [] mod_use.tag = "Members" ->
                    IF /\ mod_use.members # <<>>
                       /\ cur.loc.start > mod_name.loc.end
                       /\ cur.loc.end <= mod_use.members[1].loc.start
                    THEN members
                    ELSE IF \E i \in 1..Len(mod_use.members) :
                                contains(mod_use.members[i].loc, cur.loc)
                    THEN members
                    ELSE <<>>
               [] mod_use.tag = "Partial" ->
                    IF /\ mod_use.colon_colon # None
                       /\ cur.loc.start >= mod_use.colon_colon[1].start
                    THEN members
                    ELSE <<>>

RECURSIVE NestedUsesLoop(_, _, _, _, _)
\* The loop over the module uses of a NestedModuleUses, from the i-th one on.
NestedUsesLoop(syms, cur, info, use, i) ==
    IF i > Len(use.uses) THEN <<>>
    ELSE IF contains(use.uses[i].mod_name.loc, cur.loc)
    THEN PackageModuleItems(syms, info, use.leading_name)       \* and break
    ELSE module_use_completions(syms, cur, info, use.uses[i].mod_use, use.leading_name,
                                use.uses[i].mod_name)
         \o NestedUsesLoop(syms, cur, info, use, i + 1)

\* The candidates of use_decl_completions for a recognized `use` declaration.
UseCompletions(syms, cur, info, use) ==
    CASE use.tag = "ModuleUse" ->
            IF contains(use.address.loc, cur.loc)
            THEN PackageItems(syms, info)
            ELSE IF /\ cur.loc.start > use.address.loc.end
                    /\ cur.loc.end <= use.module.loc.end
            THEN PackageModuleItems(syms, info, use.address)
            ELSE module_use_completions(syms, cur, info, use.mod_use, use.address,
                                        use.module)
      [] use.tag = "NestedModuleUses" ->
            IF contains(use.leading_name.loc, cur.loc)
            THEN PackageItems(syms, info)
            ELSE IF /\ use.uses # <<>>
                    /\ cur.loc.start > use.leading_name.loc.end
                    /\ cur.loc.end <= use.uses[1].mod_name.loc.start
            THEN PackageModuleItems(syms, info, use.leading_name)
            ELSE NestedUsesLoop(syms, cur, info, use, 1)
      [] use.tag = "Fun" -> <<>>
      [] use.tag = "Partial" ->
            (IF contains(use.package.loc, cur.loc)
             THEN PackageItems(syms, info) ELSE <<>>)
            \o (IF /\ use.colon_colon # None
                   /\ cur.loc.start >= use.colon_colon[1].start
                THEN PackageModuleItems(syms, info, use.package) ELSE <<>>)

\* use_decl_completions with the flag taken from the candidate list instead of
\* from the recognition of the declaration.
use_decl_completions_flag_from_items ==
    /\ entry = "use"
    /\ pc = "start"
    /\ IF cursor.use_decl = None
       THEN /\ Return(<<>>, "no_use")
            /\ UNCHANGED completion_finalized
       ELSE /\ completion_finalized' =
                   (UseCompletions(symbols, cursor, AliasAutocompleteInfo_new,
                                   cursor.use_decl[1]) # <<>>)
            /\ Return(UseCompletions(symbols, cursor, AliasAutocompleteInfo_new,
                                     cursor.use_decl[1]),
                      "use")
    /\ UNCHANGED <<symbols, cursor, colon_colon_triggered, entry, prev_info, path_index,
                   depth, kinds>>

use_decl_completions ==
    /\ entry = "use"
    /\ pc = "start"
    /\ IF cursor.use_decl = None
       THEN /\ Return(<<>>, "no_use")
            /\ UNCHANGED completion_finalized
       ELSE /\ completion_finalized' = TRUE
            /\ Return(UseCompletions(symbols, cursor, AliasAutocompleteInfo_new,
                                     cursor.use_decl[1]),
                      "use")
    /\ UNCHANGED <<symbols, cursor, colon_colon_triggered, entry, prev_info, path_index,
                   depth, kinds>>

-----------------------------------------------------------------------------
(* The inputs.  A name takes one column, `::` and `, ` take two, so that the  *)
(* i-th component of a chain (the leading name is component 0) spans          *)
(* [3i, 3i + 1].  The cursor is a point.                                      *)

SegLoc(i) == Loc(3 * i, 3 * i + 1)

CursorAt(pos) == Loc(pos, pos)

\* The leading names: P is a package (and, in the alias snapshot, a module
\* alias), m a module alias (and a member alias), E a member alias, x nothing;
\* 0x1 is a package address and 0x9 is not.
LeadingNames ==
    {LeadingName("Name", n, 0, SegLoc(0)) : n \in {"P", "m", "E", "x"}}
    \cup {LeadingName("AnonymousAddress", "", a, SegLoc(0)) : a \in {1, 9}}
    \cup {LeadingName("GlobalAddress", n, 0, SegLoc(0)) : n \in {"P", "m"}}

\* The names of the entries after the leading name: a module, an enum, nothing.
EntryNames == {"m", "E", "x"}

RECURSIVE SeqsUpTo(_, _)
\* The sequences over S of length at most n.
SeqsUpTo(S, n) ==
    IF n = 0 THEN {<<>>}
    ELSE LET shorter == SeqsUpTo(S, n - 1)
         IN  shorter \cup {Append(q, x) : q \in {r \in shorter : Len(r) = n - 1}, x \in S}

PathEntries ==
    {[i \in 1..Len(names) |-> [value |-> names[i], loc |-> SegLoc(i)]] :
        names \in SeqsUpTo(EntryNames, MaxPath)}

\* ChainInfo: the chain split as by the match on P::NameAccessChain_, its kind
\* and whether it lies in a `use fun` declaration.
ChainInfos ==
    {[leading_name |-> l, path_entries |-> es, kind |-> k.kind, inside_use |-> k.inside_use] :
        l \in LeadingNames, es \in PathEntries,
        k \in {[kind |-> "Type", inside_use |-> FALSE],
               [kind |-> "Function", inside_use |-> FALSE],
               [kind |-> "All", inside_use |-> FALSE],
               [kind |-> "Function", inside_use |-> TRUE]}}

CursorModules == {None, Some(ModPm), Some(ModPn), Some(ModQm)}

SymbolsInputs ==
    {[file_mods |-> FileMods, path_autocomplete_info |-> a] : a \in {None, Some(AliasInfo)}}

\* A `use` declaration's module use that starts right after the module name,
\* which ends at column base: nothing, `::{a, b}`, or an unfinished `::`.
ModuleUseAt(shape, base) ==
    CASE shape.tag = "Module" -> [tag |-> "Module"]
      [] shape.tag = "Members" ->
            [tag |-> "Members",
             members |-> [j \in 1..shape.n |->
                             [loc |-> Loc(base + 3 * j, base + 3 * j + 1)]]]
      [] shape.tag = "Partial" ->
            [tag |-> "Partial",
             colon_colon |-> IF shape.n = 1 THEN Some(Loc(base, base + 2)) ELSE None]

\* The column at which the text of the module use ends.
ModuleUseEnd(shape, base) ==
    CASE shape.tag = "Module" -> base
      [] shape.tag = "Members" -> IF shape.n = 0 THEN base + 4 ELSE base + 3 * shape.n + 2
      [] shape.tag = "Partial" -> IF shape.n = 1 THEN base + 2 ELSE base

ModuleUseShapes ==
    {[tag |-> "Module", n |-> 0], [tag |-> "Partial", n |-> 0], [tag |-> "Partial", n |-> 1]}
    \cup {[tag |-> "Members", n |-> k] : k \in 0..MaxMembers}

NestedShapes ==
    {[tag |-> "Module", n |-> 0], [tag |-> "Partial", n |-> 1],
     [tag |-> "Members", n |-> MaxMembers]}

UsePackages ==
    {LeadingName("Name", "P", 0, SegLoc(0)), LeadingName("Name", "x", 0, SegLoc(0)),
     LeadingName("AnonymousAddress", "", 1, SegLoc(0))}

\* `pkg::mod<module use>`
ModuleUses ==
    {[tag |-> "ModuleUse", address |-> p,
      module |-> [value |-> m, loc |-> SegLoc(1)],
      mod_use |-> ModuleUseAt(sh, 4),
      text_end |-> ModuleUseEnd(sh, 4)] :
        p \in UsePackages, m \in {"m", "n", "x"}, sh \in ModuleUseShapes}

RECURSIVE NestedClauses(_, _, _)
\* The clauses of `pkg::{mod<module use>, ...}` from the i-th one on, which starts
\* at column start.
NestedClauses(specs, i, start) ==
    IF i > Len(specs) THEN <<>>
    ELSE <<[mod_name |-> [value |-> specs[i].name, loc |-> Loc(start, start + 1)],
            mod_use |-> ModuleUseAt(specs[i].shape, start + 1)]>>
         \o NestedClauses(specs, i + 1, ModuleUseEnd(specs[i].shape, start + 1) + 2)

RECURSIVE NestedEnd(_, _, _)
NestedEnd(specs, i, start) ==
    IF i > Len(specs) THEN start
    ELSE NestedEnd(specs, i + 1, ModuleUseEnd(specs[i].shape, start + 1) + 2)

NestedModuleUses ==
    {[tag |-> "NestedModuleUses", leading_name |-> p,
      uses |-> NestedClauses(specs, 1, 4),
      text_end |-> NestedEnd(specs, 1, 4)] :
        p \in UsePackages,
        specs \in SeqsUpTo({[name |-> m, shape |-> sh] :
                               m \in {"m", "x"}, sh \in NestedShapes}, MaxUses)}

\* `pkg` or `pkg::`, unfinished
PartialUses ==
    {[tag |-> "Partial", package |-> p, colon_colon |-> cc,
      text_end |-> IF cc = None THEN 1 ELSE 3] :
        p \in UsePackages, cc \in {None, Some(Loc(1, 3))}}

UseDecls == ModuleUses \cup NestedModuleUses \cup PartialUses \cup {[tag |-> "Fun", text_end |-> 0]}

\* The cursor contexts in which name_chain_completions is invoked.
ChainCursors ==
    {[module |-> m, loc |-> CursorAt(0), chain |-> None, use_decl |-> None] :
        m \in CursorModules}
    \cup {[module |-> m, loc |-> CursorAt(pos), chain |-> Some(c), use_decl |-> None] :
            m \in CursorModules, c \in ChainInfos, pos \in 0..(3 * (MaxPath + 1))}

\* The cursor contexts in which use_decl_completions is invoked.
UseCursors ==
    {[module |-> m, loc |-> CursorAt(0), chain |-> None, use_decl |-> None] :
        m \in CursorModules}
    \cup {[module |-> m, loc |-> CursorAt(pos), chain |-> None, use_decl |-> Some(u)] :
            m \in CursorModules, u \in UseDecls, pos \in 0..(3 * MaxMembers + 12)}

Init ==
    /\ symbols \in SymbolsInputs
    /\ entry \in {"chain", "use"}
    /\ colon_colon_triggered \in BOOLEAN
    /\ cursor \in IF entry = "chain"
                  THEN {c \in ChainCursors :
                           c.chain = None
                           \/ c.loc.start <= 3 * (Len(c.chain[1].path_entries) + 1)}
                  ELSE {c \in UseCursors :
                           c.use_decl = None \/ c.loc.start <= c.use_decl[1].text_end}
    /\ entry = "use" => symbols.path_autocomplete_info = None /\ ~colon_colon_triggered
    /\ pc = "start"
    /\ prev_info = None
    /\ path_index = 0
    /\ depth = 0
    /\ kinds = <<>>
    /\ outcome = "pending"
    /\ completions = <<>>
    /\ completion_finalized = FALSE

Next ==
    \/ name_chain_completions
    \/ completions_for_name_chain_entry
    \/ use_decl_completions

Spec == Init /\ [][Next]_vars

-----------------------------------------------------------------------------
(* Properties *)

\* The invocation has returned (it did not panic).
Returned == pc = "done"

\* A chain, or an import statement, was recognized at the cursor.
Recognized == IF entry = "chain" THEN cursor.chain # None ELSE cursor.use_decl # None

ItemLabels(items, kind) == {items[i].label : i \in {j \in 1..Len(items) : items[j].kind = kind}}

\* C1: for both entry points the returned flag is true exactly when a chain or
\* an import statement was recognized at the cursor, also when the returned
\* list is empty; when nothing is recognized the list is empty.
C1_FlagIffRecognized ==
    Returned =>
        /\ completion_finalized = Recognized
        /\ ~Recognized => completions = <<>>

\* C1 witness: an import statement is recognized, nothing is offered, and the
\* flag is set.
C1_Witness ==
    /\ Returned
    /\ entry = "use"
    /\ Recognized
    /\ cursor.use_decl[1].tag = "ModuleUse"
    /\ completions = <<>>
    /\ completion_finalized

\* C2: no invocation ends in a hard error: every failed or absent lookup,
\* an absent enclosing module of the cursor included, only yields no candidates.
C2_NoHardError == pc # "panicked"

\* The module whose members the walk has enumerated, when it has.
MembersEnumerated ==
    /\ Returned
    /\ outcome \in {"at_colon_colon", "on_entry"}
    /\ prev_info[1].kind.tag = "Module"
    /\ \E i \in 1..Len(symbols.file_mods) :
          symbols.file_mods[i].ident = prev_info[1].kind.mod_ident

EnumeratedDefs ==
    symbols.file_mods[CHOOSE i \in 1..Len(symbols.file_mods) :
                         symbols.file_mods[i].ident = prev_info[1].kind.mod_ident]

FunctionsWith(defs, visibilities) ==
    {defs.functions[i].name :
        i \in {j \in 1..Len(defs.functions) : defs.functions[j].visibility \in visibilities}}

\* C3: the functions enumerated for module M on behalf of requester R hold no
\* private and no package-visible function of M when R is in another package;
\* hold the package-visible and no private function when R is another module
\* of M's package; hold every function of M when R is M (purpose Function or Any).
C3_VisibilityContainment ==
    (MembersEnumerated /\ cursor.module # None) =>
        LET M == EnumeratedDefs
            R == cursor.module[1]
            offered == ItemLabels(completions, "FUNCTION")
            wanted == cursor.chain[1].kind \in {"Function", "All"}
        IN  /\ R.address # M.ident.address =>
                  offered \cap FunctionsWith(M, {"Internal", "Package"}) = {}
            /\ (R.address = M.ident.address /\ R.module # M.ident.module) =>
                  /\ offered \cap FunctionsWith(M, {"Internal"}) = {}
                  /\ wanted => FunctionsWith(M, {"Package"}) \subseteq offered
            /\ (R = M.ident /\ wanted) =>
                  FunctionsWith(M, {"Internal", "Package", "Public"}) \subseteq offered

\* C3 witness: a module of the same package asks for the functions of P::m and
\* is offered the package-visible g but not the private h.
C3_Witness ==
    /\ MembersEnumerated
    /\ cursor.module = Some(ModPn)
    /\ EnumeratedDefs.ident = ModPm
    /\ "g" \in ItemLabels(completions, "FUNCTION")
    /\ "h" \notin ItemLabels(completions, "FUNCTION")

\* The enum whose variants the walk has enumerated, when it has.
VariantsEnumerated ==
    /\ Returned
    /\ outcome \in {"at_colon_colon", "on_entry"}
    /\ prev_info[1].kind.tag = "Member"
    /\ \E i \in 1..Len(symbols.file_mods) :
          /\ symbols.file_mods[i].ident = prev_info[1].kind.mod_ident
          /\ \E j \in 1..Len(symbols.file_mods[i].enums) :
                symbols.file_mods[i].enums[j].name = prev_info[1].kind.member

\* The structs, or the enum variants, that the walk has enumerated.
DatatypesEnumerated ==
    IF MembersEnumerated /\ cursor.chain[1].kind \in {"Type", "All"}
    THEN Range(EnumeratedDefs.structs)
    ELSE IF VariantsEnumerated
    THEN LET enums == EnumeratedDefs.enums
         IN  Range(enums[CHOOSE j \in 1..Len(enums) :
                              enums[j].name = prev_info[1].kind.member].variants)
    ELSE {}

CountChar(str, c) == Cardinality({i \in 1..Len(str) : SubSeq(str, i, i) = c})

Occurs(pattern, str) ==
    \E k \in 1..(Len(str) - Len(pattern) + 1) :
        SubSeq(str, k, k + Len(pattern) - 1) = pattern

\* The positions in the returned list of the bare-name candidate of datatype d
\* and of its snippet candidates.
BareNamesOf(d) ==
    {i \in 1..Len(completions) :
        completions[i].label = d.name /\ completions[i].insert_text = None}

SnippetsOf(d) ==
    {i \in 1..Len(completions) :
        /\ completions[i].insert_text # None
        /\ completions[i].label \in {d.name \o "{..}", d.name \o "(..)"}}

Placeholders(i) == CountChar(completions[i].insert_text[1], "$")

\* The requester module is the module that declares the enumerated datatypes.
RequesterDeclares == cursor.module = Some(EnumeratedDefs.ident)

\* C4 as stated: from another module only the bare name is offered; from the
\* declaring module the bare name and exactly one snippet, whose placeholders
\* are as many as the declared fields (for every field count).
C4_AlwaysOneSnippetInModule ==
    \A d \in DatatypesEnumerated :
        /\ Cardinality(BareNamesOf(d)) = 1
        /\ ~RequesterDeclares => SnippetsOf(d) = {}
        /\ RequesterDeclares =>
              /\ Cardinality(SnippetsOf(d)) = 1
              /\ \A i \in SnippetsOf(d) : Placeholders(i) = Len(d.field_names)

\* C4, amended: from another module only the bare name is offered; from the
\* declaring module the bare name and, if the datatype has at least one field,
\* exactly one snippet whose placeholders are as many as the declared fields;
\* a datatype without fields has no snippet.
C4_SnippetOnlyInDeclaringModule ==
    \A d \in DatatypesEnumerated :
        /\ Cardinality(BareNamesOf(d)) = 1
        /\ ~RequesterDeclares => SnippetsOf(d) = {}
        /\ (RequesterDeclares /\ d.field_names = <<>>) => SnippetsOf(d) = {}
        /\ (RequesterDeclares /\ d.field_names # <<>>) =>
              /\ Cardinality(SnippetsOf(d)) = 1
              /\ \A i \in SnippetsOf(d) : Placeholders(i) = Len(d.field_names)

\* C4 witness: structs with fields are enumerated for another module, and no
\* candidate carries a template.
C4_Witness ==
    /\ MembersEnumerated
    /\ \E d \in DatatypesEnumerated : Len(d.field_names) = MaxFields
    /\ cursor.module # None
    /\ ~RequesterDeclares
    /\ \A i \in 1..Len(completions) :
          completions[i].kind = "STRUCT" => completions[i].insert_text = None

\* The text of a multi-line template: after the opening line, one line per
\* field holding that field's placeholder, and the closing brace alone on the
\* last line.
MultiLine(text, d) ==
    /\ CountChar(text, "\n") = Len(d.field_names) + 1
    /\ \A k \in 1..Len(d.field_names) :
          Occurs("\n\t${" \o ToString(k) \o ":" \o d.field_names[k] \o "},\n", text)
    /\ SubSeq(text, Len(text) - 1, Len(text)) = "\n}"

\* C5: in the declaring module, a datatype without fields yields exactly one
\* candidate; positional fields yield `Name(..)` with a single-line template
\* for any field count; one or two named fields yield `Name{..}` with a
\* single-line template; three or more named fields yield `Name{..}` with one
\* field per line and the closing brace on its own line.
C5_SnippetLayout ==
    \A d \in DatatypesEnumerated :
        RequesterDeclares =>
            LET n == Len(d.field_names)
                snippets == {completions[i] : i \in SnippetsOf(d)}
            IN  /\ n = 0 => Cardinality(BareNamesOf(d)) = 1 /\ snippets = {}
                /\ n > 0 => Cardinality(snippets) = 1
                /\ \A c \in snippets :
                      /\ Placeholders(CHOOSE i \in SnippetsOf(d) : completions[i] = c) = n
                      /\ d.positional =>
                            /\ c.label = d.name \o "(..)"
                            /\ CountChar(c.insert_text[1], "\n") = 0
                      /\ (~d.positional /\ n <= 2) =>
                            /\ c.label = d.name \o "{..}"
                            /\ CountChar(c.insert_text[1], "\n") = 0
                      /\ (~d.positional /\ n >= 3) =>
                            /\ c.label = d.name \o "{..}"
                            /\ MultiLine(c.insert_text[1], d)

\* C5 witness: the variants of an enum are enumerated in its own module, and the
\* variant with three named fields has a template of five lines.
C5_Witness ==
    /\ VariantsEnumerated
    /\ RequesterDeclares
    /\ \E i \in 1..Len(completions) :
          /\ completions[i].label = "V3{..}"
          /\ CountChar(completions[i].insert_text[1], "\n") = 4

\* C6: along a walk a Package kind is followed only by a Module kind, a Module
\* kind only by a Member kind, and a Member kind by no further kind.
C6_MonotonicNarrowing ==
    \A i \in 1..(Len(kinds) - 1) :
        /\ kinds[i].tag = "Package" => kinds[i + 1].tag = "Module"
        /\ kinds[i].tag = "Module" => kinds[i + 1].tag = "Member"
        /\ kinds[i].tag # "Member"

\* C6 witness: a walk has held a Package, then a Module, then a Member.
C6_Witness ==
    /\ Len(kinds) = 3
    /\ kinds[1].tag = "Package"
    /\ kinds[2].tag = "Module"
    /\ kinds[3].tag = "Member"

\* The package token of the recognized import statement.
UsePackageToken ==
    LET use == cursor.use_decl[1]
    IN  CASE use.tag = "ModuleUse" -> use.address
          [] use.tag = "NestedModuleUses" -> use.leading_name
          [] use.tag = "Partial" -> use.package

\* The names and the addresses of the packages known to the index and to the
\* alias snapshot info.
KnownPackages(info) ==
    {info.addresses[i].name : i \in 1..Len(info.addresses)}
    \cup {AddressToString(info.addresses[i].value) : i \in 1..Len(info.addresses)}
    \cup {symbols.file_mods[i].ident.address.name[1] :
             i \in {j \in 1..Len(symbols.file_mods) :
                       symbols.file_mods[j].ident.address.name # None}}
    \cup {AddressToString(symbols.file_mods[i].ident.address.value) :
             i \in {j \in 1..Len(symbols.file_mods) :
                       symbols.file_mods[j].ident.address.tag = "Numerical"}}

\* C7: in every form of import statement, with the cursor within the package
\* token the candidates are exactly the known packages, each tagged as a
\* package; no module and no member is among them.
C7_PackageTokenOffersPackagesOnly ==
    (/\ Returned
     /\ entry = "use"
     /\ Recognized
     /\ cursor.use_decl[1].tag # "Fun"
     /\ contains(UsePackageToken.loc, cursor.loc)) =>
        /\ \A i \in 1..Len(completions) : completions[i].kind = "UNIT"
        /\ ItemLabels(completions, "UNIT") = KnownPackages(AliasAutocompleteInfo_new)

\* The cursor is on the leading name of a recognized chain and the invocation
\* has returned.
OnLeadingName == Returned /\ outcome = "leading"

\* What the member alias m stands for in the index: the kind of candidate it
\* gives, or "NONE" if its module or its member is not indexed.
AliasTarget(m) ==
    LET found == {i \in 1..Len(symbols.file_mods) :
                     symbols.file_mods[i].ident = m.mod_ident}
        defs == symbols.file_mods[CHOOSE i \in found : TRUE]
    IN  IF found = {} THEN "NONE"
        ELSE IF \E j \in 1..Len(defs.functions) : defs.functions[j].name = m.member_name
        THEN "FUNCTION"
        ELSE IF \E j \in 1..Len(defs.structs) : defs.structs[j].name = m.member_name
        THEN "STRUCT"
        ELSE IF \E j \in 1..Len(defs.enums) : defs.enums[j].name = m.member_name
        THEN "ENUM"
        ELSE IF \E j \in 1..Len(defs.constants) : defs.constants[j] = m.member_name
        THEN "CONSTANT"
        ELSE "NONE"

\* A candidate of kind target fits the completion purpose.
Compatible(target, purpose) ==
    \/ target = "FUNCTION" /\ purpose \in {"Function", "All"}
    \/ target \in {"STRUCT", "ENUM"} /\ purpose \in {"Type", "All"}
    \/ target = "CONSTANT" /\ purpose = "All"

\* Every module alias, every member alias that fits the purpose and, for the
\* purpose Type, every primitive type and every visible type parameter is offered.
AliasesOffered(info, purpose) ==
    /\ \A i \in 1..Len(info.modules) :
          info.modules[i].alias \in ItemLabels(completions, "MODULE")
    /\ \A i \in 1..Len(info.members) :
          Compatible(AliasTarget(info.members[i]), purpose) =>
              info.members[i].alias
                  \in ItemLabels(completions, AliasTarget(info.members[i]))
    /\ purpose = "Type" =>
          /\ {"u8", "u16", "u32", "u64", "u128", "u256", "bool", "address", "vector"}
                 \subseteq ItemLabels(completions, "KEYWORD")
          /\ Range(info.type_params) \subseteq ItemLabels(completions, "TYPE_PARAMETER")

\* C9 as stated: with the cursor on the leading name, whatever its form, every
\* known package, every module alias, every member alias that fits the purpose
\* and (purpose Type) every primitive type and type parameter is offered in the
\* one result, and nothing is descended into.
C9_AllCategoriesForAnyForm ==
    OnLeadingName =>
        LET info == ChainAliasInfo(symbols)
        IN  /\ KnownPackages(info) \subseteq ItemLabels(completions, "UNIT")
            /\ AliasesOffered(info, cursor.chain[1].kind)
            /\ kinds = <<>> /\ depth = 0

\* C9, amended: with the cursor on the leading name every known package is
\* offered; if the leading name is a plain name, every module alias, every
\* member alias that fits the purpose and (purpose Type) every primitive type
\* and type parameter is offered with them; if it is a numerical or a global
\* address, the packages are all that is offered; nothing is descended into.
C9_AllCategoriesForPlainName ==
    OnLeadingName =>
        LET info == ChainAliasInfo(symbols)
        IN  /\ KnownPackages(info) \subseteq ItemLabels(completions, "UNIT")
            /\ cursor.chain[1].leading_name.form = "Name" =>
                  AliasesOffered(info, cursor.chain[1].kind)
            /\ cursor.chain[1].leading_name.form # "Name" =>
                  \A i \in 1..Len(completions) : completions[i].kind = "UNIT"
            /\ kinds = <<>> /\ depth = 0

\* C9 witness: on a plain leading name in type position, packages, module
\* aliases, a member alias, primitive types and a type parameter are offered
\* together.
C9_Witness ==
    /\ OnLeadingName
    /\ cursor.chain[1].leading_name.form = "Name"
    /\ cursor.chain[1].kind = "Type"
    /\ cursor.chain[1].path_entries # <<>>
    /\ "P" \in ItemLabels(completions, "UNIT")
    /\ "m" \in ItemLabels(completions, "MODULE")
    /\ "E" \in ItemLabels(completions, "ENUM")
    /\ "u64" \in ItemLabels(completions, "KEYWORD")
    /\ "T" \in ItemLabels(completions, "TYPE_PARAMETER")

\* The cursor is past the plain leading name of a recognized chain, and
\* name_chain_completions has chosen how to descend.
PastPlainLeadingName ==
    /\ entry = "chain"
    /\ pc # "start"
    /\ Recognized
    /\ cursor.chain[1].leading_name.form = "Name"
    /\ ~contains(cursor.chain[1].leading_name.loc, cursor.loc)

\* The names of the packages of the alias snapshot and of the index.
KnownPackageNames(info) ==
    {info.addresses[i].name : i \in 1..Len(info.addresses)}
    \cup {symbols.file_mods[i].ident.address.name[1] :
             i \in {j \in 1..Len(symbols.file_mods) :
                       symbols.file_mods[j].ident.address.name # None}}

\* C10: past a plain leading name the descent is driven by one kind: Package if
\* the name is a known package; else Module if it is a key of the module-alias
\* map; else Member if it is in the member-alias set; else nothing is resolved
\* and no candidate is produced.
C10_LeadingPrecedence ==
    PastPlainLeadingName =>
        LET info == ChainAliasInfo(symbols)
            leading == cursor.chain[1].leading_name
            mods == {i \in 1..Len(info.modules) : info.modules[i].alias = leading.name}
            mems == {i \in 1..Len(info.members) : info.members[i].alias = leading.name}
        IN  IF leading.name \in KnownPackageNames(info)
            THEN kinds # <<>> /\ kinds[1] = Package(leading)
            ELSE IF mods # {}
            THEN /\ kinds # <<>>
                 /\ \E i \in mods : kinds[1] = Module(info.modules[i].mod_ident)
            ELSE IF mems # {}
            THEN /\ kinds # <<>>
                 /\ \E i \in mems : kinds[1] = Member(info.members[i].mod_ident,
                                                      info.members[i].member_name)
            ELSE kinds = <<>> /\ Returned /\ completions = <<>>

\* C10 witness: the name P is a package and a module alias, and the descent
\* starts from the package.
C10_Witness ==
    /\ PastPlainLeadingName
    /\ cursor.chain[1].leading_name.name = "P"
    /\ symbols.path_autocomplete_info # None
    /\ \E i \in 1..Len(ChainAliasInfo(symbols).modules) :
          ChainAliasInfo(symbols).modules[i].alias = "P"
    /\ kinds # <<>>
    /\ kinds[1].tag = "Package"

\* A chain whose leading name is a global address (`::name`) was recognized, and
\* name_chain_completions has acted on it.
GlobalLeading ==
    /\ entry = "chain"
    /\ pc # "start"
    /\ Recognized
    /\ cursor.chain[1].leading_name.form = "GlobalAddress"

\* C11: a global leading name resolves to a Package or to nothing, never to a
\* Module or a Member, also when its text is a module alias or a member alias:
\* with the cursor on it only packages are offered, and with the cursor right
\* after it the candidates are the modules of that package, none of them taken
\* from what the alias of that name stands for.
C11_GlobalLeadingOnlyPackage ==
    GlobalLeading =>
        LET info == ChainAliasInfo(symbols)
            leading == cursor.chain[1].leading_name
        IN  /\ kinds # <<>> => kinds[1] = Package(leading)
            /\ leading.name \notin KnownPackageNames(info) =>
                  /\ kinds = <<>>
                  /\ Returned
                  /\ outcome # "leading" => completions = <<>>
            /\ (Returned /\ outcome = "leading") =>
                  \A i \in 1..Len(completions) : completions[i].kind = "UNIT"
            /\ (Returned /\ path_index = 0 /\ outcome \in {"at_colon_colon", "on_entry"}) =>
                  completions = PackageModuleItems(symbols, info, leading)

\* C11 witness: `::P::` where P is a package and also an alias of the module
\* P::n; the modules of the package P are offered, not the members of P::n.
C11_Witness ==
    /\ GlobalLeading
    /\ Returned
    /\ cursor.chain[1].leading_name.name = "P"
    /\ \E i \in 1..Len(ChainAliasInfo(symbols).modules) :
          ChainAliasInfo(symbols).modules[i].alias = "P"
    /\ outcome = "at_colon_colon"
    /\ path_index = 0
    /\ kinds = <<Package(cursor.chain[1].leading_name)>>
    /\ ItemLabels(completions, "MODULE") = {"m", "n"}
    /\ "nf" \notin {completions[i].label : i \in 1..Len(completions)}

\* The frame of the walk that is about to run has the cursor strictly after the
\* previous segment, and either no segment left or the cursor not past the
\* start of the current one.
InGap ==
    /\ pc = "walk"
    /\ cursor.loc.start > prev_info[1].loc.end
    /\ \/ path_index = Len(cursor.chain[1].path_entries)
       \/ /\ path_index < Len(cursor.chain[1].path_entries)
          /\ cursor.loc.end <= cursor.chain[1].path_entries[path_index + 1].loc.start

\* The frame of the walk that is about to run has the cursor within the span of
\* its current segment.
OnCurrentSegment ==
    /\ pc = "walk"
    /\ path_index < Len(cursor.chain[1].path_entries)
    /\ contains(cursor.chain[1].path_entries[path_index + 1].loc, cursor.loc)

\* The frame that ran has handed the previous segment's kind to
\* name_chain_entry_completions, and the walk has ended with it.
Emitted ==
    /\ outcome' \in {"at_colon_colon", "on_entry"}
    /\ pc' # "walk"
    /\ UNCHANGED <<prev_info, path_index, kinds>>

\* A frame that finds the path exhausted, and not both the cursor after the
\* previous segment and the separator trigger, ends the walk with no candidate.
ExhaustedStops ==
    (/\ pc = "walk"
     /\ path_index = Len(cursor.chain[1].path_entries)
     /\ ~(colon_colon_triggered /\ cursor.loc.start > prev_info[1].loc.end)) =>
        pc' = "done" /\ outcome' = "exhausted" /\ completions' = <<>>

\* C12 as stated: in a frame with the cursor in the gap, the candidates that
\* follow the previous segment are emitted exactly when the separator trigger
\* was observed, and the walk then stops without recursing; an exhausted path
\* without that ends the walk with no candidates.
C12_EmissionIffTrigger ==
    [][/\ InGap => (Emitted <=> colon_colon_triggered)
       /\ InGap => (outcome' \in {"at_colon_colon", "on_entry"} => Emitted)
       /\ ExhaustedStops]_vars

\* C12, amended: the same, except that a cursor in the gap that also lies
\* within the current segment's span (a cursor at that segment's first column)
\* gets the candidates whether or not the trigger was observed.
C12_EmissionIffTriggerOffSegment ==
    [][/\ (InGap /\ ~OnCurrentSegment) => (Emitted <=> colon_colon_triggered)
       /\ (InGap /\ OnCurrentSegment) => Emitted
       /\ InGap => (outcome' \in {"at_colon_colon", "on_entry"} => Emitted)
       /\ ExhaustedStops]_vars

\* C12 witness: the cursor was between the two colons after a module followed
\* by a further segment, the trigger was observed, and the module's members
\* were emitted without the further segment being resolved.
C12_Witness ==
    /\ Returned
    /\ outcome = "at_colon_colon"
    /\ colon_colon_triggered
    /\ path_index < Len(cursor.chain[1].path_entries)
    /\ cursor.loc.start > prev_info[1].loc.end
    /\ cursor.loc.end < cursor.chain[1].path_entries[path_index + 1].loc.start
    /\ prev_info[1].kind.tag = "Module"
    /\ completions # <<>>

\* The candidates that the kind of the previous segment determines: the modules
\* of the package, the members of the module that fit the purpose of the chain
\* as seen from the requester, the variants of the enum.
CandidatesAfter(prev_kind) ==
    CASE prev_kind.tag = "Package" ->
            PackageModuleItems(symbols, ChainAliasInfo(symbols), prev_kind.leading_name)
      [] prev_kind.tag = "Module" ->
            module_member_completions(symbols, cursor, prev_kind.mod_ident,
                                      cursor.chain[1].kind, cursor.chain[1].inside_use)
      [] prev_kind.tag = "Member" ->
            all_variant_completions(symbols, cursor, prev_kind.mod_ident, prev_kind.member)

\* C13: a frame of the walk that finds the cursor within the span of its current
\* segment emits the candidates that the previous segment's kind determines,
\* with or without the separator trigger, resolves no further kind and ends
\* the walk; the enumeration's result is the result, its failure included.
C13_CursorOnSegmentEmitsPrevKind ==
    [][OnCurrentSegment =>
          LET expected == CandidatesAfter(prev_info[1].kind)
          IN  /\ Emitted
              /\ (pc' = "done") <=> ~HasPanic(expected)
              /\ pc' = "done" => completions' = expected]_vars

\* C13 witness: in `m::E::x` with the cursor on x and no separator trigger, the
\* variants of the enum E are offered although x names none of them.
C13_Witness ==
    /\ Returned
    /\ outcome = "on_entry"
    /\ ~colon_colon_triggered
    /\ path_index = 1
    /\ cursor.chain[1].path_entries[2].value = "x"
    /\ contains(cursor.chain[1].path_entries[2].loc, cursor.loc)
    /\ prev_info[1].kind = Member(ModPm, "E")
    /\ kinds[Len(kinds)].tag = "Member"
    /\ "V1" \in {completions[i].label : i \in 1..Len(completions)}

\* The frame of the walk that is about to run resolves its current segment: the
\* cursor is neither at a `::` before it nor within it.
ResolveStep ==
    /\ pc = "walk"
    /\ path_index < Len(cursor.chain[1].path_entries)
    /\ ~OnCurrentSegment
    /\ ~(colon_colon_triggered /\ InGap)

\* The modules called name in the package that leading_name stands for, among
\* the indexed modules and the modules of the alias snapshot.
ModulesNamed(leading_name, name) ==
    {id \in {symbols.file_mods[i].ident : i \in 1..Len(symbols.file_mods)}
            \cup {ChainAliasInfo(symbols).modules[i].mod_ident :
                     i \in 1..Len(ChainAliasInfo(symbols).modules)} :
        id.module = name /\ is_pkg_mod_ident(id, leading_name)}

\* The index of module mod_ident holds a member called name.
HasMember(mod_ident, name) ==
    \E i \in 1..Len(symbols.file_mods) :
        LET defs == symbols.file_mods[i]
        IN  /\ defs.ident = mod_ident
            /\ \/ \E j \in 1..Len(defs.functions) : defs.functions[j].name = name
               \/ \E j \in 1..Len(defs.structs) : defs.structs[j].name = name
               \/ \E j \in 1..Len(defs.enums) : defs.enums[j].name = name
               \/ \E j \in 1..Len(defs.constants) : defs.constants[j] = name

\* The walk goes on to the next segment with one of the kinds in next_kinds.
Advances(next_kinds) ==
    /\ pc' = "walk"
    /\ path_index' = path_index + 1
    /\ \E k \in next_kinds :
          /\ kinds' = Append(kinds, k)
          /\ prev_info' = Some(ChainComponentInfo(
                                   cursor.chain[1].path_entries[path_index + 1].loc, k))

\* The walk ends at this segment with no candidates.
StopsEmpty ==
    /\ pc' = "done"
    /\ completions' = <<>>
    /\ UNCHANGED <<path_index, kinds, prev_info>>

\* C14 as stated: a segment is resolved by a lookup: after a Package, a Module
\* if the package has a module of that name; after a Module, a Member if the
\* index of that module has a member of that name; otherwise there is no
\* further kind, the walk stays at that segment and ends with no candidates.
C14_ResolutionIsLookup ==
    [][ResolveStep =>
          LET prev_kind == prev_info[1].kind
              name == cursor.chain[1].path_entries[path_index + 1].value
          IN  CASE prev_kind.tag = "Package" ->
                      IF ModulesNamed(prev_kind.leading_name, name) # {}
                      THEN Advances({Module(id) :
                                        id \in ModulesNamed(prev_kind.leading_name, name)})
                      ELSE StopsEmpty
                [] prev_kind.tag = "Module" ->
                      IF HasMember(prev_kind.mod_ident, name)
                      THEN Advances({Member(prev_kind.mod_ident, name)})
                      ELSE StopsEmpty
                [] prev_kind.tag = "Member" -> StopsEmpty]_vars

\* C14, amended: after a Package, a segment resolves to a Module by a lookup of
\* its name among the package's modules, and a missing module ends the walk at
\* that segment with no candidates; after a Module, a segment resolves to a
\* Member of that name without any lookup, and the walk goes on; after a Member
\* nothing resolves.  A Member whose name is no enum of its module yields no
\* candidates when the walk emits for it.
C14_ModuleLookupMemberUnchecked ==
    [][/\ ResolveStep =>
             LET prev_kind == prev_info[1].kind
                 name == cursor.chain[1].path_entries[path_index + 1].value
             IN  CASE prev_kind.tag = "Package" ->
                         IF ModulesNamed(prev_kind.leading_name, name) # {}
                         THEN Advances({Module(id) :
                                           id \in ModulesNamed(prev_kind.leading_name, name)})
                         ELSE StopsEmpty
                   [] prev_kind.tag = "Module" ->
                         Advances({Member(prev_kind.mod_ident, name)})
                   [] prev_kind.tag = "Member" -> StopsEmpty
       /\ (/\ pc = "walk"
           /\ prev_info[1].kind.tag = "Member"
           /\ ~\E i \in 1..Len(symbols.file_mods) :
                  /\ symbols.file_mods[i].ident = prev_info[1].kind.mod_ident
                  /\ \E j \in 1..Len(symbols.file_mods[i].enums) :
                        symbols.file_mods[i].enums[j].name = prev_info[1].kind.member) =>
             pc' = "done" /\ completions' = <<>>]_vars

\* C14 witness: in `P::x::m` with the cursor on the last segment, x is no module
\* of the package P, and the walk has ended at x with no candidates.
C14_Witness ==
    /\ Returned
    /\ outcome = "no_next_kind"
    /\ kinds = <<Package(cursor.chain[1].leading_name)>>
    /\ path_index = 0
    /\ cursor.chain[1].path_entries[1].value = "x"
    /\ Len(cursor.chain[1].path_entries) = 2
    /\ contains(cursor.chain[1].path_entries[2].loc, cursor.loc)
    /\ completions = <<>>

\* C15: the walk terminates: a frame either passes the walk on with the path
\* index increased by exactly one or ends it; the index never exceeds the path
\* length and no more than path length + 1 frames are entered, so that the
\* frames still to come, path length + 1 - depth, decrease to the walk's end.
C15_WalkTerminates ==
    /\ [](entry = "chain" /\ Recognized =>
             /\ path_index <= Len(cursor.chain[1].path_entries)
             /\ depth <= Len(cursor.chain[1].path_entries) + 1
             /\ pc = "walk" => depth = path_index)
    /\ [][pc = "walk" =>
             /\ depth' = depth + 1
             /\ \/ pc' = "walk" /\ path_index' = path_index + 1
                \/ pc' \in {"done", "panicked"} /\ path_index' = path_index]_vars

\* C15 witness: a walk over a path of MaxPath segments has ended in its
\* (MaxPath + 1)-th frame, with the index at the path length.
C15_Witness ==
    /\ Returned
    /\ entry = "chain"
    /\ Recognized
    /\ Len(cursor.chain[1].path_entries) = MaxPath
    /\ path_index = MaxPath
    /\ depth = MaxPath + 1

\* The candidates of the returned list that are of the given kind.
ItemsOfKind(kind) == {completions[i] : i \in {j \in 1..Len(completions) : completions[j].kind = kind}}

\* C16: the members enumerated for a module hold its functions (those visible
\* to the requester, the public ones always) exactly when the purpose is
\* Function or Any; its structs and its enums exactly when the purpose is Type
\* or Any, each enum as one bare name and none of its variants; its constants
\* exactly when the purpose is Any and the requester is that module.
C16_PurposeFiltering ==
    MembersEnumerated =>
        LET M == EnumeratedDefs
            purpose == cursor.chain[1].kind
            names(defs) == {defs[i].name : i \in 1..Len(defs)}
        IN  /\ IF purpose \in {"Function", "All"}
               THEN /\ FunctionsWith(M, {"Public"}) \subseteq ItemLabels(completions, "FUNCTION")
                    /\ ItemLabels(completions, "FUNCTION") \subseteq names(M.functions)
               ELSE ItemsOfKind("FUNCTION") = {}
            /\ IF purpose \in {"Type", "All"}
               THEN /\ \A d \in Range(M.structs) : Cardinality(BareNamesOf(d)) = 1
                    /\ ItemLabels(completions, "ENUM") = names(M.enums)
                    /\ Cardinality(ItemsOfKind("ENUM")) = Len(M.enums)
                    /\ \A c \in ItemsOfKind("ENUM") : c.insert_text = None
                    /\ \A e \in Range(M.enums) : \A v \in Range(e.variants) :
                          \A i \in 1..Len(completions) :
                              completions[i].label
                                  \notin {v.name, v.name \o "{..}", v.name \o "(..)"}
               ELSE ItemsOfKind("STRUCT") = {} /\ ItemsOfKind("ENUM") = {}
            /\ IF purpose = "All" /\ cursor.module = Some(M.ident)
               THEN ItemLabels(completions, "CONSTANT") = Range(M.constants)
               ELSE ItemsOfKind("CONSTANT") = {}

\* C16 witness: the module P::m asks for its own members for every purpose and
\* is offered a function, a struct, the enum E as a bare name and the constant K.
C16_Witness ==
    /\ MembersEnumerated
    /\ cursor.chain[1].kind = "All"
    /\ cursor.module = Some(ModPm)
    /\ EnumeratedDefs.ident = ModPm
    /\ "f" \in ItemLabels(completions, "FUNCTION")
    /\ ItemsOfKind("STRUCT") # {}
    /\ "E" \in ItemLabels(completions, "ENUM")
    /\ "K" \in ItemLabels(completions, "CONSTANT")

\* The recognized import statement is a grouped one (`pkg::{m1, m2::{..}, ..}`),
\* the cursor lies within the module token of one of its clauses, and the
\* invocation has returned.
OnGroupedModuleToken ==
    /\ Returned
    /\ entry = "use"
    /\ Recognized
    /\ cursor.use_decl[1].tag = "NestedModuleUses"
    /\ \E i \in 1..Len(cursor.use_decl[1].uses) :
          contains(cursor.use_decl[1].uses[i].mod_name.loc, cursor.loc)

\* C17: in a grouped import with the cursor within one of the module tokens,
\* the candidates are exactly the modules of the import's package, each tagged
\* as a module, and no member is among them, whatever clauses precede it.
C17_ModuleTokenOffersModulesOnly ==
    OnGroupedModuleToken =>
        /\ completions = PackageModuleItems(symbols, AliasAutocompleteInfo_new,
                                            cursor.use_decl[1].leading_name)
        /\ \A i \in 1..Len(completions) : completions[i].kind = "MODULE"

\* The clauses `module<module use>` of the recognized import statement, each
\* with the package it is imported from.
UseClauses ==
    LET use == cursor.use_decl[1]
    IN  CASE use.tag = "ModuleUse" ->
                {[package |-> use.address, mod_name |-> use.module, mod_use |-> use.mod_use,
                  single |-> TRUE]}
          [] use.tag = "NestedModuleUses" ->
                {[package |-> use.leading_name, mod_name |-> use.uses[i].mod_name,
                  mod_use |-> use.uses[i].mod_use, single |-> FALSE] :
                    i \in 1..Len(use.uses)}
          [] OTHER -> {}

\* The cursor lies inside the member sub-group of clause c: after the module
\* name and not past the last member (before the first member, on a member, or
\* between two members).
InMemberGroup(c) ==
    /\ c.mod_use.tag = "Members"
    /\ c.mod_use.members # <<>>
    /\ cursor.loc.start > c.mod_name.loc.end
    /\ cursor.loc.end <= c.mod_use.members[Len(c.mod_use.members)].loc.end

\* The cursor lies on or after the trailing `::` of the single-module import c.
OnTrailingSeparator(c) ==
    /\ c.single
    /\ c.mod_use.tag = "Partial"
    /\ c.mod_use.colon_colon # None
    /\ cursor.loc.start >= c.mod_use.colon_colon[1].start
    /\ cursor.loc.start > c.mod_name.loc.end

\* The member enumeration of the module of clause c for every purpose, as seen
\* from the requester; nothing if the package has no such module.
ClauseMembers(c) ==
    LET idents == pkg_mod_identifiers(symbols, AliasAutocompleteInfo_new, c.package)
        named == {i \in 1..Len(idents) : idents[i].module = c.mod_name.value}
    IN  IF named = {} THEN <<>>
        ELSE module_member_completions(symbols, cursor, idents[CHOOSE i \in named : TRUE],
                                       "All", TRUE)

\* C18: in an import statement, with the cursor inside the member sub-group of
\* a module or on or after the trailing separator of a single-module import,
\* the candidates are exactly the members of that module enumerated for every
\* purpose as seen from the requester, and none if the package has no such
\* module.
C18_MemberGroupOffersMembers ==
    (Returned /\ entry = "use" /\ Recognized) =>
        \A c \in UseClauses :
            (InMemberGroup(c) \/ OnTrailingSeparator(c)) => completions = ClauseMembers(c)

====
